---- MODULE Spec2Model ----
(***************************************************************************)
(* RepoThread: the two Next.js proxy route handlers                        *)
(* (src/app/api/analyze/route.ts, src/app/api/convert-thread/route.ts)     *)
(* and the client page (src/app/page.tsx) with its job poller.             *)
(*                                                                         *)
(* SpecProxy : one invocation after another of the four route handlers,    *)
(*             against a backend that answers in any way or not at all.    *)
(* Spec      : the client page: React state, requests in flight, timers,   *)
(*             clipboard writes; every answer of a request is produced by  *)
(*             the route handlers' own code, or by the transport.          *)
(***************************************************************************)
EXTENDS Integers, Sequences, FiniteSets, TLC

(***************************************************************************)
(* JavaScript values.                                                      *)
(***************************************************************************)
Undef == [t |-> "undefined"]
Null == [t |-> "null"]
Str(s) == [t |-> "string", v |-> s]
Num(n) == [t |-> "number", v |-> n]
\* a JSON array of objects (FastAPI's validation `detail`)
ArrayOfObjects == [t |-> "array"]
\* a JSON object: f maps the names of the properties it has to their values
Obj(f) == [t |-> "object", f |-> f]
EmptyObj == Obj([n \in {} |-> Undef])
\* a body that is not JSON (response.json() / request.json() rejects)
Unparsable == [t |-> "unparsable"]

\* o.name, for a value o on which property access does not throw
Get(o, name) ==
  IF o.t = "object" /\ name \in DOMAIN o.f THEN o.f[name] ELSE Undef

\* !v
Falsy(v) == v \in {Undef, Null, Str(""), Num(0)}

\* a || b
Or(a, b) == IF Falsy(a) THEN b ELSE a

\* String(v), `${v}`, new Error(v).message
StringOf(v) ==
  CASE v.t = "string" -> v.v
    [] v.t = "undefined" -> "undefined"
    [] v.t = "null" -> "null"
    [] v.t = "array" -> "[object Object]"
    [] v.t = "object" -> "[object Object]"
    [] OTHER -> "NaN"

(***************************************************************************)
(* Messages of errors thrown by the runtime.                               *)
(***************************************************************************)
FetchFailedMsg == "fetch failed"
JsonSyntaxMsg == "Unexpected token < in JSON at position 0"
NullPropertyMsg == "Cannot read properties of null"

(***************************************************************************)
(* The backend (the external FastAPI service), seen from the handlers.     *)
(***************************************************************************)
BackendStatuses == {200, 202, 404, 500}
IsOk(status) == status >= 200 /\ status <= 299

JobIdVal == "abc123"
BlogText == "<blog text>"
DetailText == "Job not found"

BackendBodies ==
  { Unparsable, Null, EmptyObj,
    Obj([job_id |-> Str(JobIdVal), status |-> Str("pending")]),
    Obj([status |-> Str("pending")]),
    Obj([status |-> Str("completed"), result |-> Str(BlogText)]),
    Obj([status |-> Str("completed")]),
    Obj([status |-> Str("failed"), result |-> Str("boom")]),
    Obj([detail |-> Str(DetailText)]),
    Obj([detail |-> Str("")]),
    Obj([detail |-> ArrayOfObjects]),
    Obj([error |-> Str("boom")]) }

\* what one outbound fetch can end in: a rejection, or a response
TransportFailure == [kind |-> "reject"]
BackendResponse(status, body) ==
  [kind |-> "response", status |-> status, body |-> body]
BackendOutcomes ==
  {TransportFailure} \cup
  {BackendResponse(s, b) : s \in BackendStatuses, b \in BackendBodies}

(***************************************************************************)
(* The route handlers.                                                     *)
(***************************************************************************)
\* NextResponse.json(body, { status })
JsonResponse(status, body) ==
  [kind |-> "response", status |-> status, body |-> body]

\* the catch block of every handler
CatchAll(message) ==
  JsonResponse(500, Obj([error |-> Str("Internal server error: " \o message)]))

\* a handler's first part ends in a response or in the outbound fetch
Responded(resp) == [done |-> TRUE, resp |-> resp]
Outbound(method, path, body) ==
  [done |-> FALSE, call |-> [method |-> method, path |-> path, body |-> body]]

\* const { name } = await request.json(): the message thrown, or "" for none
\* (request.json() rejects on a body that is not JSON; destructuring throws on
\* null, and on no other JSON value)
DestructureThrows(reqBody) ==
  CASE reqBody = Unparsable -> JsonSyntaxMsg
    [] reqBody = Null -> "Cannot destructure property of null"
    [] OTHER -> ""

AnalyzePOSTStart(reqBody) ==
  IF DestructureThrows(reqBody) # "" THEN Responded(CatchAll(DestructureThrows(reqBody)))
  ELSE IF Falsy(Get(reqBody, "repoUrl"))
  THEN Responded(JsonResponse(400, Obj([error |-> Str("Repository URL is required")])))
  ELSE Outbound("POST", "/analyze", Obj([repo_url |-> Get(reqBody, "repoUrl")]))

\* the validation testing only for an absent blog
ConvertPOSTStart_OnlyUndefined(reqBody) ==
  IF DestructureThrows(reqBody) # "" THEN Responded(CatchAll(DestructureThrows(reqBody)))
  ELSE IF Get(reqBody, "blog") = Undef
  THEN Responded(JsonResponse(400, Obj([error |-> Str("Blog content is required")])))
  ELSE Outbound("POST", "/convert",
                Obj([blog_content |-> Get(reqBody, "blog"),
                     num_tweets |-> Or(Get(reqBody, "numTweets"), Num(14))]))

ConvertPOSTStart(reqBody) ==
  IF DestructureThrows(reqBody) # "" THEN Responded(CatchAll(DestructureThrows(reqBody)))
  ELSE IF Falsy(Get(reqBody, "blog"))
  THEN Responded(JsonResponse(400, Obj([error |-> Str("Blog content is required")])))
  ELSE Outbound("POST", "/convert",
                Obj([blog_content |-> Get(reqBody, "blog"),
                     num_tweets |-> Or(Get(reqBody, "numTweets"), Num(14))]))

\* jobId is searchParams.get('jobId'): Null when the parameter is absent
StatusGETStart(jobId) ==
  IF Falsy(jobId)
  THEN Responded(JsonResponse(400, Obj([error |-> Str("Job ID is required")])))
  ELSE Outbound("GET", "/jobs/" \o StringOf(jobId), Undef)

\* the backend's text read from `message` instead of `detail`
ErrorDetail_ReadsMessage(body) == Get(body, "message")

\* errorData?.detail, errorData being response.json().catch(() => null)
ErrorDetail(body) == Get(body, "detail")

\* a 2xx answer returned without the job's status
HandlerFinish_OnlyResult(generic, outcome) ==
  IF outcome.kind = "reject" THEN CatchAll(FetchFailedMsg)
  ELSE IF ~IsOk(outcome.status)
  THEN CatchAll(StringOf(Or(ErrorDetail(outcome.body), Str(generic))))
  ELSE IF outcome.body = Unparsable THEN CatchAll(JsonSyntaxMsg)
  ELSE JsonResponse(200, Obj([result |-> Get(outcome.body, "result")]))

\* the part of a handler after `await fetch(...)`
HandlerFinish(generic, outcome) ==
  IF outcome.kind = "reject" THEN CatchAll(FetchFailedMsg)
  ELSE IF ~IsOk(outcome.status)
  THEN CatchAll(StringOf(Or(ErrorDetail(outcome.body), Str(generic))))
  ELSE IF outcome.body = Unparsable THEN CatchAll(JsonSyntaxMsg)
  ELSE JsonResponse(200, outcome.body)

Handlers == {"analyzePOST", "analyzeGET", "convertPOST", "convertGET"}

GenericMessage(h) ==
  CASE h = "analyzePOST" -> "Failed to analyze repository"
    [] h = "convertPOST" -> "Failed to convert blog to thread"
    [] OTHER -> "Failed to get job status"

\* the handler's input: the parsed body of a POST, the jobId parameter of a GET
HandlerStart(h, input) ==
  CASE h = "analyzePOST" -> AnalyzePOSTStart(input)
    [] h = "convertPOST" -> ConvertPOSTStart(input)
    [] OTHER -> StatusGETStart(input)

(***************************************************************************)
(* SpecProxy: invocations of the route handlers.                           *)
(***************************************************************************)
VARIABLES
  pxHandler,  \* the handler invoked
  pxInput,    \* its input
  pxPc,       \* "idle" | "awaiting" (at `await fetch`) | "responded"
  pxCalls,    \* the outbound calls this invocation has made
  pxBackend,  \* what the outbound fetch settled with, NoResponse before
  pxResp,     \* the response returned, NoResponse before
  pxElapsed,  \* seconds the outbound call has been awaited
  pxCompleted \* the last earlier status query that found its job completed:
              \* handler, input, the backend's answer, the response given

pxVars ==
  <<pxHandler, pxInput, pxPc, pxCalls, pxBackend, pxResp, pxElapsed, pxCompleted>>

\* the state of the client page (page.tsx)
VARIABLES
  repoUrl,    \* useState(''): a string
  blog,       \* useState(''): a JavaScript value (setBlog(data.result))
  thread,     \* useState(''): a JavaScript value (setThread(data.result))
  loading,    \* useState(false)
  error,      \* useState(''): a string
  jobId,      \* useState(''): a JavaScript value (setJobId(data.job_id))
  progress,   \* useState(''): a string
  requests,   \* the fetches in flight, in the order they were issued
  timers,     \* the setTimeout callbacks pending, in the order they were set
  clipboard,  \* the navigator.clipboard.writeText promises pending
  last        \* the handler or callback that ran last, and what it was given

clVars ==
  <<repoUrl, blog, thread, loading, error, jobId, progress,
    requests, timers, clipboard, last>>

vars == <<pxVars, clVars>>

NoResponse == [kind |-> "none"]

RepoUrlVal == "https://github.com/acme/widgets"

\* export const maxDuration = 60
maxDuration == 60
\* seconds past maxDuration that the model lets an outbound call last
MaxOverrun == 2

PostInputs(h) ==
  IF h = "analyzePOST"
  THEN { Unparsable, Null, EmptyObj, Str("abc"),
         Obj([repoUrl |-> Str("")]), Obj([repoUrl |-> Null]),
         Obj([repoUrl |-> Str(RepoUrlVal)]) }
  ELSE { Unparsable, Null, EmptyObj,
         Obj([blog |-> Str("")]), Obj([numTweets |-> Num(5)]),
         Obj([blog |-> Str(BlogText)]),
         Obj([blog |-> Str(BlogText), numTweets |-> Num(0)]),
         Obj([blog |-> Str(BlogText), numTweets |-> Num(5)]) }

GetInputs == { Null, Str(""), Str(JobIdVal), Str("undefined") }

HandlerInputs(h) ==
  IF h \in {"analyzePOST", "convertPOST"} THEN PostInputs(h) ELSE GetInputs

PxInit ==
  /\ pxHandler = "analyzePOST"
  /\ pxInput = Null
  /\ pxPc = "idle"
  /\ pxCalls = <<>>
  /\ pxBackend = NoResponse
  /\ pxResp = NoResponse
  /\ pxElapsed = 0
  /\ pxCompleted = NoResponse

\* a request arrives: the handler runs up to its return or to `await fetch`
Invoke(h, input) ==
  /\ UNCHANGED clVars
  /\ pxPc = "idle"
  /\ pxHandler' = h
  /\ pxInput' = input
  /\ pxElapsed' = 0
  /\ pxBackend' = NoResponse
  /\ UNCHANGED pxCompleted
  /\ LET r == HandlerStart(h, input) IN
       IF r.done
       THEN /\ pxPc' = "responded"
            /\ pxResp' = r.resp
            /\ pxCalls' = pxCalls
       ELSE /\ pxPc' = "awaiting"
            /\ pxResp' = NoResponse
            /\ pxCalls' = Append(pxCalls, r.call)

\* the outbound fetch settles: the handler runs to its return
BackendAnswers(outcome) ==
  /\ UNCHANGED clVars
  /\ pxPc = "awaiting"
  /\ pxPc' = "responded"
  /\ pxBackend' = outcome
  /\ pxResp' = HandlerFinish(GenericMessage(pxHandler), outcome)
  /\ UNCHANGED <<pxHandler, pxInput, pxCalls, pxElapsed, pxCompleted>>

\* a second passes while the outbound fetch is pending
PxTick ==
  /\ UNCHANGED clVars
  /\ pxPc = "awaiting"
  /\ pxElapsed < maxDuration + MaxOverrun
  /\ pxElapsed' = pxElapsed + 1
  /\ UNCHANGED <<pxHandler, pxInput, pxPc, pxCalls, pxBackend, pxResp, pxCompleted>>

\* the backend answered a status query 2xx with a completed job
FoundCompleted(h, backend) ==
  /\ h \in {"analyzeGET", "convertGET"}
  /\ backend.kind = "response"
  /\ IsOk(backend.status)
  /\ Get(backend.body, "status") = Str("completed")

\* the invocation is over; the handlers keep nothing
PxReturn ==
  /\ UNCHANGED clVars
  /\ pxPc = "responded"
  /\ pxCompleted' =
       IF FoundCompleted(pxHandler, pxBackend)
       THEN [handler |-> pxHandler, input |-> pxInput,
             backend |-> pxBackend, resp |-> pxResp]
       ELSE pxCompleted
  /\ pxPc' = "idle"
  /\ pxCalls' = <<>>
  /\ pxBackend' = NoResponse
  /\ pxResp' = NoResponse
  /\ pxElapsed' = 0
  /\ UNCHANGED <<pxHandler, pxInput>>

(***************************************************************************)
(* The client page (page.tsx).                                             *)
(***************************************************************************)
\* setTimeout(() => pollJobStatus(id, type), 5000)
PollInterval == 5000
\* setTimeout(() => setError(''), 3000)
CopyNoticeDelay == 3000
\* milliseconds that pass in one step of the clock
Quantum == 1000
\* clipboard writes and notice timers pending at one time
MaxCopies == 2

ClientFetchFailedMsg == "Failed to fetch"

\* the responses the route handler h gives to `input`, over all the backend does
ProxyResponses(h, input) ==
  LET r == HandlerStart(h, input) IN
    IF r.done THEN {r.resp}
    ELSE {HandlerFinish(GenericMessage(h), o) : o \in BackendOutcomes}

\* the inputs the page sends the handlers: the bodies of its two POSTs and
\* the jobId parameter of its GETs
PageInputs ==
  { Obj([repoUrl |-> Str(RepoUrlVal)]),
    Obj([blog |-> Str(BlogText)]), Obj([blog |-> Str("")]), Obj([blog |-> Undef]),
    Str(JobIdVal), Str("undefined"), Str("") }

\* ProxyResponses over the inputs of the page, evaluated once
ProxyResponsesOfPage ==
  [h \in Handlers |-> [input \in PageInputs |-> ProxyResponses(h, input)]]

\* the responses of route handler h to the page's request
Responses(h, input) ==
  IF input \in PageInputs THEN ProxyResponsesOfPage[h][input]
  ELSE ProxyResponses(h, input)

\* a response that is not the handler's: the platform ends the invocation
PlatformTimeout == JsonResponse(504, Unparsable)

\* what a fetch of the client can settle with
FetchOutcomes(req) ==
  {TransportFailure, PlatformTimeout} \cup
  ( CASE req.op = "submit" /\ req.type = "analyze" ->
           Responses("analyzePOST", req.body)
      [] req.op = "submit" /\ req.type = "convert" ->
           Responses("convertPOST", req.body)
      [] req.op = "poll" /\ req.type = "analyze" ->
           Responses("analyzeGET", Str(StringOf(req.id)))
      [] OTHER ->
           Responses("convertGET", Str(StringOf(req.id))) )

Throw(message) == [kind |-> "throw", message |-> message]

\* the statements every fetch of the page is followed by:
\*   const data = await response.json()
\*   if (!response.ok) throw new Error(data.error || generic)
\* "" when they throw nothing
ReadThrows(outcome, generic) ==
  CASE outcome.kind = "reject" -> ClientFetchFailedMsg
    [] outcome.body = Unparsable -> JsonSyntaxMsg
    [] outcome.body = Null -> NullPropertyMsg
    [] ~IsOk(outcome.status) ->
         StringOf(Or(Get(outcome.body, "error"), Str(generic)))
    [] OTHER -> ""

\* a failed status query taken for a pending job
PollResult_RetriesOnFailure(outcome) ==
  IF ReadThrows(outcome, "Failed to get job status") # ""
  THEN [kind |-> "pending"]
  ELSE IF Get(outcome.body, "status") = Str("completed")
  THEN [kind |-> "completed", result |-> Get(outcome.body, "result")]
  ELSE IF Get(outcome.body, "status") = Str("pending")
  THEN [kind |-> "pending"]
  ELSE Throw("Job failed: " \o StringOf(Get(outcome.body, "result")))

\* pollJobStatus after its fetch: what the try block comes to
PollResult(outcome) ==
  IF ReadThrows(outcome, "Failed to get job status") # ""
  THEN Throw(ReadThrows(outcome, "Failed to get job status"))
  ELSE IF Get(outcome.body, "status") = Str("completed")
  THEN [kind |-> "completed", result |-> Get(outcome.body, "result")]
  ELSE IF Get(outcome.body, "status") = Str("pending")
  THEN [kind |-> "pending"]
  ELSE Throw("Job failed: " \o StringOf(Get(outcome.body, "result")))

\* handleSubmit / handleConvertToThread after their fetch
SubmitResult(outcome, generic) ==
  IF ReadThrows(outcome, generic) # ""
  THEN Throw(ReadThrows(outcome, generic))
  ELSE [kind |-> "job", job_id |-> Get(outcome.body, "job_id")]

SubmitGeneric(type) ==
  IF type = "analyze" THEN "Failed to analyze repository"
  ELSE "Failed to convert blog to thread"

PollRequest(id, type) == [op |-> "poll", type |-> type, id |-> id]
SubmitRequest(type, body) == [op |-> "submit", type |-> type, body |-> body]
\* the follow-up set with no delay
PollTimer_NoDelay(id, type) ==
  [kind |-> "poll", id |-> id, type |-> type, delay |-> 0, left |-> 0]

\* setTimeout(() => pollJobStatus(id, type), 5000)
PollTimer(id, type) ==
  [kind |-> "poll", id |-> id, type |-> type,
   delay |-> PollInterval, left |-> PollInterval]
ClearErrorTimer ==
  [kind |-> "clearError", delay |-> CopyNoticeDelay, left |-> CopyNoticeDelay]

Remove(seq, i) == SubSeq(seq, 1, i - 1) \o SubSeq(seq, i + 1, Len(seq))

\* what ran last: its name, the operation kind and job id it was for, its input
Ran(op, type, id, given) == [op |-> op, type |-> type, id |-> id, given |-> given]

ClInit ==
  /\ repoUrl = ""
  /\ blog = Str("")
  /\ thread = Str("")
  /\ loading = FALSE
  /\ error = ""
  /\ jobId = Str("")
  /\ progress = ""
  /\ requests = <<>>
  /\ timers = <<>>
  /\ clipboard = <<>>
  /\ last = Ran("render", "", Undef, Undef)

\* onChange of the input, which is disabled while loading
SetRepoUrl(url) ==
  /\ UNCHANGED pxVars
  /\ ~loading
  /\ repoUrl' = url
  /\ last' = Ran("setRepoUrl", "", Undef, Str(url))
  /\ UNCHANGED <<blog, thread, loading, error, jobId, progress,
                 requests, timers, clipboard>>

\* the submit button and the input never disabled
SubmitEnabled_Always == TRUE

\* the form can be submitted: its button and input are disabled while loading
SubmitEnabled == ~loading

\* the form is submitted (the input is `required`)
HandleSubmit ==
  /\ UNCHANGED pxVars
  /\ SubmitEnabled
  /\ repoUrl # ""
  /\ error' = ""
  /\ loading' = TRUE
  /\ progress' = "Starting analysis..."
  /\ blog' = Str("")
  /\ thread' = Str("")
  /\ requests' = Append(requests,
                        SubmitRequest("analyze", Obj([repoUrl |-> Str(repoUrl)])))
  /\ last' = Ran("handleSubmit", "analyze", Undef, Str(repoUrl))
  /\ UNCHANGED <<repoUrl, jobId, timers, clipboard>>

\* the Convert button is rendered when blog is truthy, disabled while loading
ConvertButtonEnabled == ~Falsy(blog) /\ ~loading

\* the handler without its `if (!blog) return`
HandleConvertToThread_NoGuard ==
  /\ UNCHANGED pxVars
  /\ last' = Ran("handleConvertToThread", "convert", Undef, blog)
  /\ error' = ""
  /\ loading' = TRUE
  /\ progress' = "Starting conversion..."
  /\ thread' = Str("")
  /\ requests' = Append(requests,
                        SubmitRequest("convert", Obj([blog |-> blog])))
  /\ UNCHANGED <<repoUrl, blog, jobId, timers, clipboard>>

HandleConvertToThread ==
  /\ UNCHANGED pxVars
  /\ last' = Ran("handleConvertToThread", "convert", Undef, blog)
  /\ IF Falsy(blog)
     THEN UNCHANGED <<repoUrl, blog, thread, loading, error, jobId, progress,
                      requests, timers, clipboard>>
     ELSE /\ error' = ""
          /\ loading' = TRUE
          /\ progress' = "Starting conversion..."
          /\ thread' = Str("")
          /\ requests' = Append(requests,
                                SubmitRequest("convert", Obj([blog |-> blog])))
          /\ UNCHANGED <<repoUrl, blog, jobId, timers, clipboard>>

\* the catch of a submission leaving the progress label
SubmitSettles_KeepsProgress(i, outcome) ==
  /\ UNCHANGED pxVars
  /\ requests[i].op = "submit"
  /\ LET req == requests[i]
         res == SubmitResult(outcome, SubmitGeneric(req.type)) IN
       /\ last' = Ran("submitSettles", req.type, Undef, outcome)
       /\ IF res.kind = "job"
          THEN \* setJobId(data.job_id); pollJobStatus(data.job_id, type)
               /\ jobId' = res.job_id
               /\ requests' = Append(Remove(requests, i),
                                     PollRequest(res.job_id, req.type))
               /\ UNCHANGED <<loading, progress, error>>
          ELSE /\ loading' = FALSE
               /\ UNCHANGED progress
               /\ error' = res.message
               /\ requests' = Remove(requests, i)
               /\ UNCHANGED jobId
  /\ UNCHANGED <<repoUrl, blog, thread, timers, clipboard>>

\* the fetch of handleSubmit / handleConvertToThread settles
SubmitSettles(i, outcome) ==
  /\ UNCHANGED pxVars
  /\ requests[i].op = "submit"
  /\ LET req == requests[i]
         res == SubmitResult(outcome, SubmitGeneric(req.type)) IN
       /\ last' = Ran("submitSettles", req.type, Undef, outcome)
       /\ IF res.kind = "job"
          THEN \* setJobId(data.job_id); pollJobStatus(data.job_id, type)
               /\ jobId' = res.job_id
               /\ requests' = Append(Remove(requests, i),
                                     PollRequest(res.job_id, req.type))
               /\ UNCHANGED <<loading, progress, error>>
          ELSE /\ loading' = FALSE
               /\ progress' = ""
               /\ error' = res.message
               /\ requests' = Remove(requests, i)
               /\ UNCHANGED jobId
  /\ UNCHANGED <<repoUrl, blog, thread, timers, clipboard>>

\* every result stored in blog
ResultField_AlwaysBlog(type) == "blog"

\* the state a completed job's result is stored in: setBlog or setThread
ResultField(type) == IF type = "analyze" THEN "blog" ELSE "thread"

\* the follow-up set also when the job has completed
PollFollowUps_Always(res, id, type) == <<PollTimer(id, type)>>

\* two follow-ups set for one pending answer
PollFollowUps_Twice(res, id, type) ==
  IF res.kind = "pending" THEN <<PollTimer(id, type), PollTimer(id, type)>> ELSE <<>>

\* no follow-up set for a pending answer
PollFollowUps_Never(res, id, type) == <<>>

\* the timers pollJobStatus sets after its fetch
PollFollowUps(res, id, type) ==
  IF res.kind = "pending" THEN <<PollTimer(id, type)>> ELSE <<>>

\* the fetch of pollJobStatus settles
PollSettles(i, outcome) ==
  /\ UNCHANGED pxVars
  /\ requests[i].op = "poll"
  /\ LET req == requests[i]
         res == PollResult(outcome) IN
       /\ last' = Ran("pollSettles", req.type, req.id, outcome)
       /\ requests' = Remove(requests, i)
       /\ timers' = timers \o PollFollowUps(res, req.id, req.type)
       /\ CASE res.kind = "completed" ->
                 /\ loading' = FALSE
                 /\ progress' = ""
                 /\ IF ResultField(req.type) = "blog"
                    THEN blog' = res.result /\ UNCHANGED thread
                    ELSE thread' = res.result /\ UNCHANGED blog
                 /\ jobId' = Str("")
                 /\ UNCHANGED error
            [] res.kind = "pending" ->
                 /\ progress' = IF req.type = "analyze"
                                THEN "Analyzing repository..."
                                ELSE "Converting to thread..."
                 /\ UNCHANGED <<loading, blog, thread, jobId, error>>
            [] OTHER ->
                 /\ loading' = FALSE
                 /\ progress' = ""
                 /\ error' = res.message
                 /\ jobId' = Str("")
                 /\ UNCHANGED <<blog, thread>>
  /\ UNCHANGED <<repoUrl, clipboard>>

\* a timer is due: () => pollJobStatus(id, type) runs up to its fetch
PollTimerFires(i) ==
  /\ UNCHANGED pxVars
  /\ timers[i].kind = "poll"
  /\ timers[i].left = 0
  /\ requests' = Append(requests, PollRequest(timers[i].id, timers[i].type))
  /\ timers' = Remove(timers, i)
  /\ last' = Ran("pollTimerFires", timers[i].type, timers[i].id, timers[i])
  /\ UNCHANGED <<repoUrl, blog, thread, loading, error, jobId, progress, clipboard>>

\* the Copy buttons: rendered with their text, disabled while loading
CopyButtonEnabled(which) ==
  /\ ~loading
  /\ ~Falsy(IF which = "blog" THEN blog ELSE thread)

\* handleCopyBlog / handleCopyThread up to `await writeText(...)`
HandleCopy(which) ==
  /\ UNCHANGED pxVars
  /\ Len(clipboard) + Cardinality({i \in DOMAIN timers : timers[i].kind = "clearError"})
       < MaxCopies
  /\ clipboard' = Append(clipboard, which)
  /\ last' = Ran("handleCopy", which, Undef, Undef)
  /\ UNCHANGED <<repoUrl, blog, thread, loading, error, jobId, progress,
                 requests, timers>>

\* writeText settles: both the try and the catch set the notice and its timer
ClipboardSettles(i, written) ==
  /\ UNCHANGED pxVars
  /\ i \in DOMAIN clipboard
  /\ error' = IF written
              THEN (IF clipboard[i] = "blog"
                    THEN "Blog content copied to clipboard!"
                    ELSE "Thread content copied to clipboard!")
              ELSE (IF clipboard[i] = "blog"
                    THEN "Failed to copy blog content"
                    ELSE "Failed to copy thread content")
  /\ timers' = Append(timers, ClearErrorTimer)
  /\ clipboard' = Remove(clipboard, i)
  /\ last' = Ran("clipboardSettles", clipboard[i], Undef, Str(IF written THEN "written" ELSE "refused"))
  /\ UNCHANGED <<repoUrl, blog, thread, loading, jobId, progress, requests>>

\* a timer is due: () => setError('')
ClearErrorFires(i) ==
  /\ UNCHANGED pxVars
  /\ timers[i].kind = "clearError"
  /\ timers[i].left = 0
  /\ error' = ""
  /\ timers' = Remove(timers, i)
  /\ last' = Ran("clearErrorFires", "", Undef, timers[i])
  /\ UNCHANGED <<repoUrl, blog, thread, loading, jobId, progress,
                 requests, clipboard>>

\* time passes
Tick ==
  /\ UNCHANGED pxVars
  /\ \E i \in DOMAIN timers : timers[i].left > 0
  /\ timers' = [i \in DOMAIN timers |->
                  [timers[i] EXCEPT !.left = IF @ > Quantum THEN @ - Quantum ELSE 0]]
  /\ last' = Ran("tick", "", Undef, Undef)
  /\ UNCHANGED <<repoUrl, blog, thread, loading, error, jobId, progress,
                 requests, clipboard>>

\* handleConvertToThread called while its button is not rendered (`blog &&`)
ConvertCalledUnrendered == Falsy(blog)

ClNext ==
  \/ \E url \in {"", RepoUrlVal} : SetRepoUrl(url)
  \/ HandleSubmit
  \/ ConvertButtonEnabled /\ HandleConvertToThread
  \/ ConvertCalledUnrendered /\ HandleConvertToThread
  \/ \E i \in DOMAIN requests : \E o \in FetchOutcomes(requests[i]) : SubmitSettles(i, o)
  \/ \E i \in DOMAIN requests : \E o \in FetchOutcomes(requests[i]) : PollSettles(i, o)
  \/ \E i \in DOMAIN timers : PollTimerFires(i)
  \/ \E which \in {"blog", "thread"} : CopyButtonEnabled(which) /\ HandleCopy(which)
  \/ \E i \in DOMAIN clipboard : \E written \in BOOLEAN : ClipboardSettles(i, written)
  \/ \E i \in DOMAIN timers : ClearErrorFires(i)
  \/ Tick

Init == ClInit /\ PxInit
Next == ClNext
Spec == Init /\ [][Next]_vars

PxNext ==
  \/ \E h \in Handlers : \E input \in HandlerInputs(h) : Invoke(h, input)
  \/ \E outcome \in BackendOutcomes : BackendAnswers(outcome)
  \/ PxTick
  \/ PxReturn

SpecProxy == Init /\ [][PxNext]_vars

(***************************************************************************)
(* Properties of the route handlers (SpecProxy).                           *)
(***************************************************************************)
\* a body of the form { error: string }
IsErrorEnvelope(body) == body.t = "object" /\ Get(body, "error").t = "string"

ErrorPrefix == "Internal server error: "

\* C1: every invocation that has returned gave a response that is either a
\* 2xx without an error envelope or a non-2xx with an { error: string } body.
C1_SuccessOrErrorEnvelope ==
  pxPc = "responded" =>
    /\ pxResp.kind = "response"
    /\ IsOk(pxResp.status) <=> ~IsErrorEnvelope(pxResp.body)

\* the required input is missing or empty, in a request whose body
\* request.json() and the destructuring accept
MissingInput(h, input) ==
  CASE h = "analyzePOST" ->
         DestructureThrows(input) = "" /\ Get(input, "repoUrl") \in {Undef, Null, Str("")}
    [] h = "convertPOST" ->
         DestructureThrows(input) = "" /\ Get(input, "blog") \in {Undef, Null, Str("")}
    [] OTHER -> input \in {Null, Str("")}

C8_TimeoutIs504 ==
  (pxHandler \in {"analyzePOST", "convertPOST"} /\ pxElapsed > maxDuration) =>
    /\ pxPc = "responded"
    /\ pxResp.status = 504

PollRequests == {i \in DOMAIN requests : requests[i].op = "poll"}
PollTimers == {i \in DOMAIN timers : timers[i].kind = "poll"}

\* what a status query was answered, read off the answer itself
AnswerReadable(o) ==
  o.kind = "response" /\ IsOk(o.status) /\ o.body.t = "object"
AnsweredCompleted(o) ==
  AnswerReadable(o) /\ Get(o.body, "status") = Str("completed")
AnsweredPending(o) ==
  AnswerReadable(o) /\ Get(o.body, "status") = Str("pending")
QueryFailed(o) == ~AnsweredCompleted(o) /\ ~AnsweredPending(o)

\* C3: when a status query is answered `completed`, the result is stored
\* (blog for analyze, thread for convert), loading, progress and jobId are
\* cleared, and no status query is in flight or scheduled; while loading is
\* false none is, so none follows for that job.
C3_CompletedStoresResultAndStops ==
  /\ (last.op = "pollSettles" /\ AnsweredCompleted(last.given)) =>
       /\ ~loading
       /\ progress = ""
       /\ jobId = Str("")
       /\ last.type = "analyze" => blog = Get(last.given.body, "result")
       /\ last.type = "convert" => thread = Get(last.given.body, "result")
       /\ PollRequests = {}
       /\ PollTimers = {}
  /\ ~loading => (PollRequests = {} /\ PollTimers = {})

C3_Witness ==
  /\ last.op = "pollSettles"
  /\ last.type = "convert"
  /\ AnsweredCompleted(last.given)
  /\ thread = Str(BlogText)
  /\ ~Falsy(blog)

\* C4: when a status query is answered `pending`, exactly one follow-up is
\* scheduled, for the same job and kind, with the 5000 ms delay still to run,
\* and loading stays true; a follow-up fires only when its delay has run out.
C4_PendingSchedulesOneFollowUp ==
  /\ (last.op = "pollSettles" /\ AnsweredPending(last.given)) =>
       /\ loading
       /\ Cardinality(PollTimers) = 1
       /\ \A i \in PollTimers :
            timers[i] = [kind |-> "poll", id |-> last.id, type |-> last.type,
                         delay |-> 5000, left |-> 5000]
       /\ PollRequests = {}
  /\ last.op = "pollTimerFires" =>
       (last.given.delay = 5000 /\ last.given.left = 0)

C4_Witness ==
  /\ last.op = "pollSettles"
  /\ AnsweredPending(last.given)
  /\ last.type = "analyze"
  /\ progress = "Analyzing repository..."
  /\ PollTimers # {}

\* C5: at most one submission or poll chain is alive at any time: at most
\* one request or poll timer exists, it belongs to the job the page holds,
\* and a submission starts only when none exists.
C5_OneChainAtATime ==
  /\ Len(requests) + Cardinality(PollTimers) <= 1
  /\ \A i \in PollRequests : requests[i].id = jobId
  /\ \A i \in PollTimers : timers[i].id = jobId
  /\ (last.op = "handleSubmit"
        \/ (last.op = "handleConvertToThread" /\ ~Falsy(last.given))) =>
       (Len(requests) = 1 /\ requests[1].op = "submit" /\ PollTimers = {})

\* a second submission has started after an earlier job was polled
C5_Witness ==
  /\ last.op = "handleConvertToThread"
  /\ loading
  /\ Len(requests) = 1
  /\ blog = Str(BlogText)

\* C6: the poll iterations are sequential: at most one status query is in
\* flight, and none is in flight while a follow-up is scheduled.
C6_PollsAreSequential ==
  /\ Cardinality(PollRequests) <= 1
  /\ Cardinality(PollTimers) <= 1
  /\ ~(PollRequests # {} /\ PollTimers # {})

\* a follow-up query is in flight
C6_Witness ==
  /\ last.op = "pollTimerFires"
  /\ Cardinality(PollRequests) = 1
  /\ PollTimers = {}

\* C7: when a status query fails or is answered a status other than
\* `completed` and `pending`, a non-empty error is set, loading, progress and
\* jobId are cleared and no query is in flight or scheduled; a query is
\* scheduled by a `pending` answer only.
C7_FailureEndsPolling ==
  /\ (last.op = "pollSettles" /\ QueryFailed(last.given)) =>
       /\ error # ""
       /\ ~loading
       /\ progress = ""
       /\ jobId = Str("")
       /\ PollRequests = {}
       /\ PollTimers = {}
  /\ (last.op = "pollSettles" /\ (PollRequests # {} \/ PollTimers # {})) =>
       AnsweredPending(last.given)

C7_Witness ==
  /\ last.op = "pollSettles"
  /\ last.given = JsonResponse(200, Obj([status |-> Str("failed"), result |-> Str("boom")]))
  /\ error = "Job failed: boom"
  /\ ~loading

CopyNotices ==
  { "Blog content copied to clipboard!", "Failed to copy blog content",
    "Thread content copied to clipboard!", "Failed to copy thread content" }

\* the error of a failed submission or poll is displayed
FailureShown == error # "" /\ error \notin CopyNotices

\* C10: a displayed error of a failed submission or poll changes only when a
\* submission starts, and after a completed job no error is displayed.
C10_ErrorPersistsUntilSubmission ==
  /\ [][(FailureShown /\ error' # error) =>
          last'.op \in {"handleSubmit", "handleConvertToThread"}]_vars
  /\ []((last.op = "pollSettles" /\ AnsweredCompleted(last.given)) => error = "")

\* C11: when the fetch of a submission has settled, either the page holds a
\* job identifier that is a non-empty string and a status query for it is in
\* flight, or an error message is shown with loading cleared and no status
\* query started.
C11_JobIdOrError ==
  last.op = "submitSettles" =>
    \/ /\ jobId.t = "string"
       /\ jobId # Str("")
       /\ loading
       /\ Len(requests) = 1
       /\ requests[1] = PollRequest(jobId, last.type)
    \/ /\ ~loading
       /\ error # ""
       /\ progress = ""
       /\ requests = <<>>
       /\ PollTimers = {}

\* C12: a status query answered 2xx by the backend with a JSON body is
\* answered 200 with that body, the job's status and result unchanged; and a
\* status query on a completed job is answered as the earlier query for the
\* same job with the same backend answer was.
C12_StatusPassedThrough ==
  (pxPc = "responded" /\ pxHandler \in {"analyzeGET", "convertGET"}
     /\ pxBackend # NoResponse) =>
    /\ (pxBackend.kind = "response" /\ IsOk(pxBackend.status)
          /\ pxBackend.body # Unparsable) =>
         /\ pxResp.status = 200
         /\ pxResp.body = pxBackend.body
         /\ Get(pxResp.body, "status") = Get(pxBackend.body, "status")
         /\ Get(pxResp.body, "result") = Get(pxBackend.body, "result")
    /\ (pxCompleted # NoResponse /\ pxCompleted.handler = pxHandler
          /\ pxCompleted.input = pxInput /\ pxCompleted.backend = pxBackend) =>
         pxResp = pxCompleted.resp

\* a completed job is queried a second time
C12_Witness ==
  /\ pxPc = "responded"
  /\ pxHandler = "analyzeGET"
  /\ pxInput = Str(JobIdVal)
  /\ pxBackend = BackendResponse(200, Obj([status |-> Str("completed"), result |-> Str(BlogText)]))
  /\ pxCompleted # NoResponse
  /\ pxCompleted.handler = pxHandler
  /\ pxCompleted.input = pxInput
  /\ pxCompleted.backend = pxBackend
  /\ pxResp = JsonResponse(200, pxBackend.body)

\* C13: the body POST /api/convert-thread forwards has blog_content equal to
\* the inbound blog, and num_tweets equal to the inbound numTweets when that
\* is a number (0 included) and to 14 when numTweets is absent.
C13_NumTweetsForwarded ==
  (pxHandler = "convertPOST" /\ pxCalls # <<>>) =>
    LET sent == pxCalls[Len(pxCalls)].body
        numTweets == Get(pxInput, "numTweets")
    IN  /\ Get(sent, "blog_content") = Get(pxInput, "blog")
        /\ numTweets.t = "number" => Get(sent, "num_tweets") = numTweets
        /\ numTweets = Undef => Get(sent, "num_tweets") = Num(14)

\* a status query is answered anything but `pending`, or fails
NonPendingSettle ==
  \E i \in DOMAIN requests :
    /\ requests[i].op = "poll"
    /\ \E o \in FetchOutcomes(requests[i]) :
         ~AnsweredPending(o) /\ PollSettles(i, o)

\* the awaited fetch of a submission settles
SubmitAnswered ==
  \E i \in DOMAIN requests :
    /\ requests[i].op = "submit"
    /\ \E o \in FetchOutcomes(requests[i]) : SubmitSettles(i, o)

\* the awaited fetch of a status query settles
PollAnswered ==
  \E i \in DOMAIN requests :
    /\ requests[i].op = "poll"
    /\ \E o \in FetchOutcomes(requests[i]) : PollSettles(i, o)

\* Spec with its scheduling: every request is answered, every timer fires,
\* time passes, and the status queries of a job are not answered `pending`
\* for ever
SpecLive ==
  /\ Spec
  /\ WF_vars(SubmitAnswered)
  /\ WF_vars(PollAnswered)
  /\ WF_vars(\E i \in DOMAIN timers : PollTimerFires(i))
  /\ WF_vars(Tick)
  /\ SF_vars(NonPendingSettle)

\* C14: under that scheduling a loading page stops loading; loading is
\* cleared only by a settled submission that failed or by a status query that
\* failed or was answered other than `pending`, and then the result is stored
\* or an error is shown.
C14_PollingEnds ==
  /\ loading ~> ~loading
  /\ [][(loading /\ ~loading') =>
          /\ last'.op \in {"submitSettles", "pollSettles"}
          /\ last'.op = "pollSettles" => ~AnsweredPending(last'.given)
          /\ \/ error' # ""
             \/ /\ last'.op = "pollSettles"
                /\ AnsweredCompleted(last'.given)
                /\ (IF last'.type = "analyze" THEN blog' ELSE thread')
                     = Get(last'.given.body, "result")]_vars

\* an analysis has ended with its result stored
C14_Witness ==
  /\ last.op = "pollSettles"
  /\ last.type = "analyze"
  /\ last.id = Str(JobIdVal)
  /\ AnsweredCompleted(last.given)
  /\ ~loading
  /\ blog = Str(BlogText)
  /\ error = ""

\* C15: while loading is false, progress and jobId are empty and no request
\* and no poll timer is outstanding.
C15_NotLoadingIsIdle ==
  ~loading =>
    /\ progress = ""
    /\ jobId = Str("")
    /\ requests = <<>>
    /\ PollTimers = {}

\* a submission has failed after an earlier job was polled to its end
C15_Witness ==
  /\ last.op = "submitSettles"
  /\ last.type = "convert"
  /\ ~loading
  /\ error # ""
  /\ blog = Str(BlogText)

\* C16: the steps of a convert operation (handleConvertToThread, the settling
\* of its fetch, its poll callbacks) leave blog and repoUrl unchanged, and the
\* poll callbacks of an analyze operation leave thread unchanged.
C16_ResultGoesToItsOwnField ==
  [][/\ (last'.type = "convert"
           /\ last'.op \in {"handleConvertToThread", "submitSettles",
                            "pollSettles", "pollTimerFires"}) =>
          (blog' = blog /\ repoUrl' = repoUrl)
     /\ (last'.type = "analyze" /\ last'.op \in {"pollSettles", "pollTimerFires"}) =>
          thread' = thread]_vars

\* a convert job has completed: its result is in thread, blog is as it was
C16_Witness ==
  /\ last.op = "pollSettles"
  /\ last.type = "convert"
  /\ AnsweredCompleted(last.given)
  /\ Get(last.given.body, "result") = Undef
  /\ thread = Undef
  /\ blog = Str(BlogText)

\* C17: handleConvertToThread called while blog is empty changes nothing of
\* the page's state and issues no request, and no convert request in flight
\* carries an empty blog.
C17_EmptyBlogIsNoOp ==
  /\ [][(last'.op = "handleConvertToThread" /\ Falsy(blog)) =>
          UNCHANGED <<repoUrl, blog, thread, loading, error, jobId, progress,
                      requests, timers, clipboard>>]_vars
  /\ [](\A i \in DOMAIN requests :
          (requests[i].op = "submit" /\ requests[i].type = "convert") =>
            ~Falsy(Get(requests[i].body, "blog")))

\* the handler was called with an empty blog while an analysis was loading
C17_Witness ==
  /\ last.op = "handleConvertToThread"
  /\ Falsy(last.given)
  /\ Falsy(blog)
  /\ loading
  /\ Len(requests) = 1
  /\ requests[1].type = "analyze"

====
